---- MODULE Spec2Model ----
(***************************************************************************)
(* A model of map_embeddings.py: the start-up of main(), the training      *)
(* loop (mapping solver, dictionary induction, convergence test), the      *)
(* blockwise nearest-neighbour search, the dictionary readers and the      *)
(* construction of the sparse assignment cost structure.                   *)
(*                                                                         *)
(* Embeddings are one-dimensional and integer valued, so that every        *)
(* matrix product, singular value decomposition and inverse of the run     *)
(* is an exact computation on rationals.  A rational is a pair <<n, d>>    *)
(* with d > 0.  Python indices are kept 0-based; a TLA+ sequence s holds   *)
(* the Python element s[i] at position i + 1.                              *)
(***************************************************************************)
EXTENDS Integers, Sequences, FiniteSets, TLC

(***************************************************************************)
(* Bounds of the model.                                                    *)
(***************************************************************************)
MaxRows == 2
MaxIt == 4

(***************************************************************************)
(* Program constants.                                                      *)
(***************************************************************************)
MAX_DIM_X == 10000
MAX_DIM_Z == 10000
InitialObjective == -100
BestSimInit == -100

VARIABLES
    pc,             \* position of main()
    args,           \* the parsed command line
    cupy,           \* supports_cupy() of the installation
    src_input,      \* the source embedding file: a sequence of [word, vec]
    trg_input,      \* the target embedding file
    dictionary,     \* the training dictionary file: a sequence of <<src, trg>>
    src_words, trg_words, x, z,
    src_indices, trg_indices,
    seed,           \* the training dictionary as built before the loop
    xw, zw,         \* numerators of the mapped embeddings
    den,            \* their common denominator (zw is integral)
    best_sim_forward, best_sim_backward,   \* numerators over den
    objective, prev_objective,
    held,           \* the objective held when the current iteration began
    it,
    normalized,     \* STEP 0 has run
    written,        \* the output embeddings that were written, or <<>>
    sv,             \* the similarity engine run on its own
    dv,             \* a dictionary reader run on its own
    lv              \* the assignment cost structure built on its own

mainVars == <<pc, args, cupy, src_input, trg_input, dictionary, src_words,
              trg_words, x, z, src_indices, trg_indices, seed, xw, zw, den,
              best_sim_forward, best_sim_backward, objective, prev_objective,
              held, it, normalized, written>>
vars == <<mainVars, sv, dv, lv>>

Idle == [pc |-> "off"]

(***************************************************************************)
(* Arithmetic helpers.                                                     *)
(***************************************************************************)
Abs(n) == IF n < 0 THEN -n ELSE n

RECURSIVE GCD(_, _)
GCD(a, b) == IF b = 0 THEN a ELSE GCD(b, a % b)

Rat(n, d) ==
    IF n = 0 THEN <<0, 1>>
    ELSE LET g == GCD(Abs(n), d) IN <<n \div g, d \div g>>

RatSub(p, q) == Rat(p[1] * q[2] - q[1] * p[2], p[2] * q[2])
RatAdd(p, q) == Rat(p[1] * q[2] + q[1] * p[2], p[2] * q[2])
RatHalf(p) == Rat(p[1], 2 * p[2])
RatGE(p, q) == p[1] * q[2] >= q[1] * p[2]
RatLT(p, q) == p[1] * q[2] < q[1] * p[2]

RECURSIVE SumSeq(_)
SumSeq(s) == IF s = <<>> THEN 0 ELSE Head(s) + SumSeq(Tail(s))

Mean(s, d) == Rat(SumSeq(s), Len(s) * d)

Take(s, n) == SubSeq(s, 1, IF n < Len(s) THEN n ELSE Len(s))

Min(a, b) == IF a < b THEN a ELSE b

Arange(n) == [i \in 1..n |-> i - 1]

(***************************************************************************)
(* The similarity engine (the nearest-neighbour branch of the              *)
(* self-learning step).  S is the similarity matrix xw.dot(zw.T) as a       *)
(* function of <<row, column>>; sim = xw[i:j].dot(zw[k:l].T) is its block   *)
(* of rows i..j-1 and columns k..l-1.  st holds best_sim_forward,          *)
(* trg_indices_forward, best_sim_backward and src_indices_backward.        *)
(***************************************************************************)
\* sim.argmax(axis=1) for row r of the block: the first column of the maximum
ArgMaxRow(S, r, k, l) ==
    CHOOSE c \in k..(l - 1) :
        /\ \A c2 \in k..(l - 1) : S[<<r, c2>>] <= S[<<r, c>>]
        /\ \A c2 \in k..(c - 1) : S[<<r, c2>>] < S[<<r, c>>]

\* sim.argmax(axis=0) for column c of the block: the first row of the maximum
ArgMaxCol(S, c, i, j) ==
    CHOOSE r \in i..(j - 1) :
        /\ \A r2 \in i..(j - 1) : S[<<r2, c>>] <= S[<<r, c>>]
        /\ \A r2 \in i..(r - 1) : S[<<r2, c>>] < S[<<r, c>>]

NNStart(nx, nz, init) ==
    [bsf |-> [r \in 1..nx |-> init],
     tif |-> [r \in 1..nx |-> 0],
     bsb |-> [c \in 1..nz |-> init],
     sib |-> [c \in 1..nz |-> 0]]

\* the forward update of one block: mask = (val > best_sim_forward[i:j])
BlockForward(st, S, i, j, k, l) ==
    LET hit(r) == r \in i..(j - 1) /\ S[<<r, ArgMaxRow(S, r, k, l)>>] > st.bsf[r + 1]
    IN [st EXCEPT
          !.bsf = [r \in DOMAIN st.bsf |->
                      IF hit(r - 1) THEN S[<<r - 1, ArgMaxRow(S, r - 1, k, l)>>]
                      ELSE st.bsf[r]],
          !.tif = [r \in DOMAIN st.tif |->
                      IF hit(r - 1) THEN ArgMaxRow(S, r - 1, k, l) ELSE st.tif[r]]]

\* the backward update of one block: mask = (val > best_sim_backward[k:l])
BlockBackward(st, S, i, j, k, l) ==
    LET hit(c) == c \in k..(l - 1) /\ S[<<ArgMaxCol(S, c, i, j), c>>] > st.bsb[c + 1]
    IN [st EXCEPT
          !.bsb = [c \in DOMAIN st.bsb |->
                      IF hit(c - 1) THEN S[<<ArgMaxCol(S, c - 1, i, j), c - 1>>]
                      ELSE st.bsb[c]],
          !.sib = [c \in DOMAIN st.sib |->
                      IF hit(c - 1) THEN ArgMaxCol(S, c - 1, i, j) ELSE st.sib[c]]]

\* the body of the loop over k: one block in the configured direction(s)
BlockStep(st, S, i, j, k, l, direction) ==
    LET f == IF direction \in {"forward", "union"}
             THEN BlockForward(st, S, i, j, k, l) ELSE st
    IN IF direction \in {"backward", "union"}
       THEN BlockBackward(f, S, i, j, k, l) ELSE f

\* for i in range(0, nx, bx): for k in range(0, nz, bz): ...
RECURSIVE NNLoop(_, _, _, _, _, _, _, _, _)
NNLoop(st, S, nx, nz, bx, bz, direction, i, k) ==
    IF i >= nx THEN st
    ELSE IF k >= nz THEN NNLoop(st, S, nx, nz, bx, bz, direction, i + bx, 0)
    ELSE NNLoop(BlockStep(st, S, i, Min(nx, i + bx), k, Min(nz, k + bz), direction),
                S, nx, nz, bx, bz, direction, i, k + bz)

\* Variants of the induced dictionary: a union that keeps the forward
\* sources only, and a backward list of targets as long as the source side
InducedSrcForwardOnly(st, direction) ==
    IF direction = "backward" THEN st.sib ELSE Arange(Len(st.bsf))

InducedTrgSourceLength(st, direction) ==
    IF direction = "forward" THEN st.tif
    ELSE IF direction = "backward" THEN Arange(Len(st.bsf))
    ELSE st.tif \o Arange(Len(st.bsf))

\* the training dictionary induced for a direction
InducedSrc(st, direction) ==
    IF direction = "forward" THEN Arange(Len(st.bsf))
    ELSE IF direction = "backward" THEN st.sib
    ELSE Arange(Len(st.bsf)) \o st.sib

InducedTrg(st, direction) ==
    IF direction = "forward" THEN st.tif
    ELSE IF direction = "backward" THEN Arange(Len(st.bsb))
    ELSE st.tif \o Arange(Len(st.bsb))

\* the objective of a direction; the best similarities are numerators over d
Objective(st, direction, d) ==
    IF direction = "forward" THEN Mean(st.bsf, d)
    ELSE IF direction = "backward" THEN Mean(st.bsb, d)
    ELSE RatHalf(RatAdd(Mean(st.bsf, d), Mean(st.bsb, d)))

(***************************************************************************)
(* The dictionary readers.  A vocabulary is the sequence of its words;     *)
(* word2ind maps a word to the last row that carries it.                   *)
(***************************************************************************)
InVocab(words, w) == \E i \in 1..Len(words) : words[i] = w

Word2Ind(words, w) ==
    CHOOSE i \in 0..(Len(words) - 1) :
        /\ words[i + 1] = w
        /\ \A j \in (i + 1)..(Len(words) - 1) : words[j + 1] # w

\* A variant that appends the source index before it looks the target up
TrainingLineEager(d, line, sw, tw) ==
    IF ~InVocab(sw, line[1]) THEN d
    ELSE IF ~InVocab(tw, line[2])
    THEN [d EXCEPT !.src = Append(d.src, Word2Ind(sw, line[1]))]
    ELSE [src |-> Append(d.src, Word2Ind(sw, line[1])),
          trg |-> Append(d.trg, Word2Ind(tw, line[2]))]

\* one line of the training dictionary: both look-ups, then both appends
TrainingLine(d, line, sw, tw) ==
    IF InVocab(sw, line[1]) /\ InVocab(tw, line[2])
    THEN [src |-> Append(d.src, Word2Ind(sw, line[1])),
          trg |-> Append(d.trg, Word2Ind(tw, line[2]))]
    ELSE d

RECURSIVE ReadTraining(_, _, _, _)
ReadTraining(d, lines, sw, tw) ==
    IF lines = <<>> THEN d
    ELSE ReadTraining(TrainingLine(d, Head(lines), sw, tw), Tail(lines), sw, tw)

\* every order in which a set of words can be iterated
Orders(W) ==
    {s \in [1..Cardinality(W) -> W] : \A i, j \in DOMAIN s : i # j => s[i] # s[j]}

WordPairs(order, sw, tw) ==
    [src |-> [i \in DOMAIN order |-> Word2Ind(sw, order[i])],
     trg |-> [i \in DOMAIN order |-> Word2Ind(tw, order[i])]]

Numerals == {"1", "7"}
WordSet(words) == {words[i] : i \in DOMAIN words}

(***************************************************************************)
(* The mapping solver on one-dimensional embeddings.  xs, zs are the       *)
(* embeddings, d the training dictionary.  A solution is [xw, zw, den]:    *)
(* xw/den and zw are the mapped embeddings.  The empty set of solutions    *)
(* is a numerical error that ends the run.                                 *)
(***************************************************************************)
RECURSIVE Cross(_, _, _, _)
Cross(xs, zs, si, ti) ==
    IF si = <<>> THEN 0
    ELSE xs[Head(si) + 1] * zs[Head(ti) + 1] + Cross(xs, zs, Tail(si), Tail(ti))

Scale(s, w) == [i \in DOMAIN s |-> s[i] * w]

\* u * vt of the singular value decomposition of the 1x1 matrix [a]
Signs(a) == IF a > 0 THEN {1} ELSE IF a < 0 THEN {-1} ELSE {1, -1}

\* z[trg_indices].T.dot(x[src_indices]); w = vt.T.dot(u.T)
Orthogonal(xs, zs, d) ==
    {[xw |-> Scale(xs, w), zw |-> zs, den |-> 1] :
        w \in Signs(Cross(xs, zs, d.src, d.trg))}

\* w = inv(x'x).dot(x').dot(z) over the dictionary rows
Unconstrained(xs, zs, d) ==
    LET sxx == Cross(xs, xs, d.src, d.src)
        sxz == Cross(xs, zs, d.src, d.trg)
    IN IF sxx = 0 THEN {}
       ELSE LET w == Rat(sxz, sxx)
            IN {[xw |-> Scale(xs, w[1]), zw |-> zs, den |-> w[2]]}

\* STEP 1 to 5 with the re-weighting exponents and dim_reduction at 0.
\* Whitening divides each side by the norm of its dictionary rows and the
\* de-whitening of a side by its own transformation multiplies it back;
\* both fail on a dictionary whose rows have norm 0.
Advanced(xs, zs, d, a) ==
    LET sxx == Cross(xs, xs, d.src, d.src)
        szz == Cross(zs, zs, d.trg, d.trg)
    IN IF a.whiten /\ (sxx = 0 \/ szz = 0) THEN {}
       ELSE {[xw |-> Scale(xs, u), zw |-> Scale(zs, v), den |-> 1] :
                <<u, v>> \in {p \in {1, -1} \X {1, -1} :
                                 p[1] * p[2] \in Signs(Cross(xs, zs, d.src, d.trg))}}

Solutions(xs, zs, d, a) ==
    IF a.orthogonal THEN Orthogonal(xs, zs, d)
    ELSE IF a.unconstrained THEN Unconstrained(xs, zs, d)
    ELSE Advanced(xs, zs, d, a)

\* The whitened pipeline is rational in one dimension when each side is
\* de-whitened by its own transformation
ExactWhitening(a) ==
    (~a.orthogonal /\ ~a.unconstrained /\ a.whiten)
        => (a.src_dewhiten = "src" /\ a.trg_dewhiten = "trg")

SimMatrix(xwn, zwn) ==
    [p \in (0..(Len(xwn) - 1)) \X (0..(Len(zwn) - 1)) |->
        xwn[p[1] + 1] * zwn[p[2] + 1]]

\* embeddings.length_normalize on one-dimensional rows
LengthNormalize(s) == [i \in DOMAIN s |-> IF s[i] > 0 THEN 1 ELSE IF s[i] < 0 THEN -1 ELSE 0]

(***************************************************************************)
(* The inputs of a run.                                                    *)
(***************************************************************************)
SrcWordAt == <<"1", "a", "b", "7">>
TrgWordAt == <<"a", "1", "c", "7">>
SrcVals == {1, 2}
TrgVals == {-1, 2}

EmbeddingFiles(wordAt, vals) ==
    UNION {{[i \in 1..n |-> [word |-> wordAt[i], vec |-> f[i]]] : f \in [1..n -> vals]} :
              n \in 1..MaxRows}

DictionaryFiles ==
    {<<>>, <<(<<"1", "1">>)>>, <<(<<"a", "a">>)>>, <<(<<"a", "zz">>), (<<"1", "1">>)>>}

Directions == {"forward", "backward", "union"}
Thresholds == {<<0, 1>>, <<1, 1000>>, <<1, 1>>}

BaseSrcInput == <<[word |-> "1", vec |-> 1], [word |-> "a", vec |-> 2]>>
BaseTrgInput == <<[word |-> "a", vec |-> 1], [word |-> "1", vec |-> 2]>>
BaseDictionary == <<(<<"1", "1">>)>>

\* the command lines that vary the start-up of main()
StartupArgs ==
    {a \in [whiten : BOOLEAN, src_dewhiten : {"None", "src", "trg"},
            trg_dewhiten : {"None", "src", "trg"}, cuda : BOOLEAN,
            num_words : {0, 1}, normalize : {<<>>, <<"unit">>},
            orthogonal : BOOLEAN, unconstrained : BOOLEAN,
            self_learning : {TRUE}, direction : {"forward"}, lapmod : {FALSE},
            numerals : {FALSE}, identical : {FALSE}, threshold : {<<1, 1000>>}] :
        ~(a.orthogonal /\ a.unconstrained) /\ ExactWhitening(a)}

\* the command lines that vary the training loop
LoopArgs ==
    {a \in [whiten : {FALSE}, src_dewhiten : {"None"}, trg_dewhiten : {"None"},
            cuda : {FALSE}, num_words : {0}, normalize : {<<>>},
            orthogonal : BOOLEAN, unconstrained : BOOLEAN,
            self_learning : BOOLEAN, direction : Directions, lapmod : BOOLEAN,
            numerals : BOOLEAN, identical : BOOLEAN, threshold : Thresholds] :
        /\ ~(a.orthogonal /\ a.unconstrained)
        /\ ~(a.numerals /\ a.identical)
        /\ ~a.self_learning => (a.direction = "forward" /\ ~a.lapmod)}

InitLocals ==
    /\ src_words = <<>> /\ trg_words = <<>> /\ x = <<>> /\ z = <<>>
    /\ src_indices = <<>> /\ trg_indices = <<>>
    /\ seed = [src |-> <<>>, trg |-> <<>>]
    /\ xw = <<>> /\ zw = <<>> /\ den = 1
    /\ best_sim_forward = <<>> /\ best_sim_backward = <<>>
    /\ objective = <<InitialObjective, 1>>
    /\ prev_objective = <<InitialObjective, 1>>
    /\ held = <<InitialObjective, 1>>
    /\ it = 1
    /\ normalized = FALSE
    /\ written = <<>>

\* main() is not running
MainOff ==
    /\ pc = "off" /\ args = Idle /\ cupy = FALSE
    /\ src_input = <<>> /\ trg_input = <<>> /\ dictionary = <<>>
    /\ InitLocals

Init ==
    /\ \/ /\ args \in StartupArgs
          /\ cupy \in BOOLEAN
          /\ src_input = BaseSrcInput
          /\ trg_input = BaseTrgInput
          /\ dictionary = BaseDictionary
       \/ /\ args \in LoopArgs
          /\ cupy = FALSE
          /\ src_input \in EmbeddingFiles(SrcWordAt, SrcVals)
          /\ trg_input \in EmbeddingFiles(TrgWordAt, TrgVals)
          /\ dictionary \in (IF args.numerals \/ args.identical
                             THEN {<<>>} ELSE DictionaryFiles)
    /\ pc = "args"
    /\ InitLocals
    /\ sv = Idle /\ dv = Idle /\ lv = Idle

(***************************************************************************)
(* main(), from the check of the command line to the training loop.        *)
(***************************************************************************)
Exit(why) ==
    /\ pc' = why
    /\ UNCHANGED <<args, cupy, src_input, trg_input, dictionary, src_words,
                   trg_words, x, z, src_indices, trg_indices, seed, xw, zw, den,
                   best_sim_forward, best_sim_backward, objective,
                   prev_objective, held, it, normalized, written, sv, dv, lv>>

\* A variant of the check that looks at the source side only
CheckArgumentsSrcOnly ==
    /\ pc = "args"
    /\ IF args.src_dewhiten # "None" /\ ~args.whiten
       THEN Exit("exit")
       ELSE Exit("read")

CheckArguments ==
    /\ pc = "args"
    /\ IF (args.src_dewhiten # "None" \/ args.trg_dewhiten # "None") /\ ~args.whiten
       THEN Exit("exit")
       ELSE Exit("read")

ReadEmbeddings ==
    /\ pc = "read"
    /\ src_words' = [i \in DOMAIN src_input |-> src_input[i].word]
    /\ x' = [i \in DOMAIN src_input |-> src_input[i].vec]
    /\ trg_words' = [i \in DOMAIN trg_input |-> trg_input[i].word]
    /\ z' = [i \in DOMAIN trg_input |-> trg_input[i].vec]
    /\ pc' = "cupy"
    /\ UNCHANGED <<args, cupy, src_input, trg_input, dictionary,
                   src_indices, trg_indices, seed, xw, zw, den,
                   best_sim_forward, best_sim_backward, objective,
                   prev_objective, held, it, normalized, written, sv, dv, lv>>

CupyManagement ==
    /\ pc = "cupy"
    /\ IF args.cuda /\ ~cupy THEN Exit("exit") ELSE Exit("restrict")

RestrictVocabulary ==
    /\ pc = "restrict"
    /\ LET n == IF args.num_words # 0 THEN args.num_words ELSE Len(x) + Len(z)
           zc == Take(z, n)
           m == IF Len(Take(x, n)) > Len(zc) THEN Len(zc) ELSE n
       IN /\ src_words' = Take(src_words, m)
          /\ x' = Take(x, m)
          /\ trg_words' = Take(trg_words, n)
          /\ z' = zc
    /\ pc' = "dictionary"
    /\ UNCHANGED <<args, cupy, src_input, trg_input, dictionary,
                   src_indices, trg_indices, seed, xw, zw, den,
                   best_sim_forward, best_sim_backward, objective,
                   prev_objective, held, it, normalized, written, sv, dv, lv>>

TrainingDictionaries ==
    IF args.numerals
    THEN {WordPairs(o, src_words, trg_words) :
             o \in Orders((WordSet(src_words) \cap Numerals)
                              \cap (WordSet(trg_words) \cap Numerals))}
    ELSE IF args.identical
    THEN {WordPairs(o, src_words, trg_words) :
             o \in Orders(WordSet(src_words) \cap WordSet(trg_words))}
    ELSE {ReadTraining([src |-> <<>>, trg |-> <<>>], dictionary, src_words, trg_words)}

BuildTrainingDictionary ==
    /\ pc = "dictionary"
    /\ \E d \in TrainingDictionaries :
          /\ src_indices' = d.src
          /\ trg_indices' = d.trg
          /\ seed' = d
    /\ pc' = "normalize"
    /\ UNCHANGED <<args, cupy, src_input, trg_input, dictionary, src_words,
                   trg_words, x, z, xw, zw, den,
                   best_sim_forward, best_sim_backward, objective,
                   prev_objective, held, it, normalized, written, sv, dv, lv>>

RECURSIVE Normalized(_, _)
Normalized(m, actions) ==
    IF actions = <<>> THEN m
    ELSE Normalized(IF Head(actions) = "unit" THEN LengthNormalize(m) ELSE m,
                    Tail(actions))

Normalization ==
    /\ pc = "normalize"
    /\ x' = Normalized(x, args.normalize)
    /\ z' = Normalized(z, args.normalize)
    /\ normalized' = TRUE
    /\ pc' = "while"
    /\ UNCHANGED <<args, cupy, src_input, trg_input, dictionary, src_words,
                   trg_words, src_indices, trg_indices, seed, xw, zw, den,
                   best_sim_forward, best_sim_backward, objective,
                   prev_objective, held, it, written, sv, dv, lv>>

(***************************************************************************)
(* The training loop.                                                      *)
(***************************************************************************)
\* Variants of the loop condition: a strict comparison,
\* and a third iteration that always runs
ContinueStrict ==
    it = 1 \/ RatLT(args.threshold, RatSub(objective, prev_objective))

ContinueThrice ==
    it <= 3 \/ RatGE(RatSub(objective, prev_objective), args.threshold)

\* A loop that goes on whenever the objective has changed
ContinueOnChange ==
    it = 1 \/ objective # prev_objective

\* it == 1 or objective - prev_objective >= args.threshold
Continue ==
    it = 1 \/ RatGE(RatSub(objective, prev_objective), args.threshold)

WhileTest ==
    /\ pc = "while"
    /\ IF Continue THEN it <= MaxIt /\ Exit("solve") ELSE Exit("write")

MappingSolver ==
    /\ pc = "solve"
    /\ LET sols == Solutions(x, z, [src |-> src_indices, trg |-> trg_indices], args)
       IN IF sols = {}
          THEN /\ pc' = "crash"
               /\ UNCHANGED <<xw, zw, den, held>>
          ELSE /\ \E s \in sols : xw' = s.xw /\ zw' = s.zw /\ den' = s.den
               /\ held' = objective
               /\ pc' = "learn"
    /\ UNCHANGED <<args, cupy, src_input, trg_input, dictionary, src_words,
                   trg_words, x, z, src_indices, trg_indices, seed,
                   best_sim_forward, best_sim_backward, objective,
                   prev_objective, it, normalized, written, sv, dv, lv>>

\* the nearest-neighbour search of one iteration
Induction ==
    NNLoop(NNStart(Len(x), Len(z), BestSimInit * den), SimMatrix(xw, zw),
           Len(x), Len(z), MAX_DIM_X, MAX_DIM_Z, args.direction, 0, 0)

SelfLearning ==
    /\ pc = "learn"
    /\ IF args.self_learning /\ args.lapmod
       THEN \* args.n_similar is no argument of the parser: AttributeError
            /\ pc' = "crash"
            /\ best_sim_forward' = [r \in 1..Len(x) |-> BestSimInit * den]
            /\ best_sim_backward' = [c \in 1..Len(z) |-> BestSimInit * den]
            /\ UNCHANGED <<src_indices, trg_indices, objective, prev_objective, it>>
       ELSE IF args.self_learning
       THEN \E st \in {Induction} :
               /\ best_sim_forward' = st.bsf
               /\ best_sim_backward' = st.bsb
               /\ src_indices' = InducedSrc(st, args.direction)
               /\ trg_indices' = InducedTrg(st, args.direction)
               /\ prev_objective' = objective
               /\ objective' = Objective(st, args.direction, den)
               /\ it' = it + 1
               /\ pc' = "while"
       ELSE /\ it' = it + 1
            /\ pc' = "while"
            /\ UNCHANGED <<best_sim_forward, best_sim_backward, src_indices,
                           trg_indices, objective, prev_objective>>
    /\ UNCHANGED <<args, cupy, src_input, trg_input, dictionary, src_words,
                   trg_words, x, z, seed, xw, zw, den, held, normalized,
                   written, sv, dv, lv>>

WriteEmbeddings ==
    /\ pc = "write"
    /\ written' = <<xw, zw, den>>
    /\ pc' = "done"
    /\ UNCHANGED <<args, cupy, src_input, trg_input, dictionary, src_words,
                   trg_words, x, z, src_indices, trg_indices, seed, xw, zw, den,
                   best_sim_forward, best_sim_backward, objective,
                   prev_objective, held, it, normalized, sv, dv, lv>>

Next ==
    \/ CheckArguments
    \/ ReadEmbeddings
    \/ CupyManagement
    \/ RestrictVocabulary
    \/ BuildTrainingDictionary
    \/ Normalization
    \/ WhileTest
    \/ MappingSolver
    \/ SelfLearning
    \/ WriteEmbeddings

Spec == Init /\ [][Next]_vars

(***************************************************************************)
(* Properties of the run.                                                  *)
(***************************************************************************)
RatNeg(p) == <<-p[1], p[2]>>
InLoop == pc \in {"while", "solve", "learn", "write", "done", "crash"}
BadDewhiten ==
    (args.src_dewhiten # "None" \/ args.trg_dewhiten # "None") /\ ~args.whiten
NoBackend == args.cuda /\ ~cupy

\* C1: the loop always runs iteration 1; after a completed iteration it
\* starts another one exactly when the objective minus the objective held
\* before that iteration's update is at least the threshold, and leaves the
\* loop exactly when it is below the threshold.
C1_StoppingRule ==
    [][pc = "while" =>
          IF it = 1 \/ RatGE(RatSub(objective, held), args.threshold)
          THEN pc' = "solve" ELSE pc' = "write"]_vars

\* the loop has halted after two iterations, the second of which changed the
\* objective by less than the threshold
C1_Witness ==
    /\ pc = "write" /\ it = 3
    /\ objective # held
    /\ RatLT(RatSub(objective, held), args.threshold)

\* C2 as stated: every fatal configuration error ends the run before any
\* embedding is loaded, before normalization, before the first iteration
\* and with no output written.
C2_Original ==
    /\ (BadDewhiten /\ pc # "args") => pc = "exit"
    /\ (NoBackend /\ pc \notin {"args", "read", "cupy"}) => pc = "exit"
    /\ pc = "exit" =>
          /\ x = <<>> /\ z = <<>>
          /\ ~normalized /\ it = 1 /\ xw = <<>> /\ written = <<>>

\* C2 as amended: de-whitening without whitening ends the run before any
\* embedding is loaded; a missing accelerator backend ends it after both
\* embedding files are loaded and before the vocabulary is restricted; in
\* both cases the dictionary is not read, nothing is normalized, no
\* iteration runs and no output is written.
C2_Validation ==
    /\ (BadDewhiten /\ pc # "args") => (pc = "exit" /\ x = <<>> /\ z = <<>>)
    /\ (~BadDewhiten /\ NoBackend /\ pc \notin {"args", "read", "cupy"}) =>
          /\ pc = "exit"
          /\ Len(x) = Len(src_input) /\ Len(z) = Len(trg_input)
    /\ pc = "exit" =>
          /\ BadDewhiten \/ NoBackend
          /\ src_indices = <<>> /\ trg_indices = <<>>
          /\ ~normalized /\ it = 1 /\ xw = <<>> /\ written = <<>>

\* the run has ended on the missing backend, with the embeddings loaded
C2_Witness == pc = "exit" /\ NoBackend /\ args.whiten /\ Len(x) > 0

\* C4: whenever the mapping solver is invoked, the two index lists of the
\* training dictionary have the same length and index rows of x and of z.
C4_WellFormed ==
    pc = "solve" =>
        /\ Len(src_indices) = Len(trg_indices)
        /\ \A k \in DOMAIN src_indices : src_indices[k] \in 0..(Len(x) - 1)
        /\ \A k \in DOMAIN trg_indices : trg_indices[k] \in 0..(Len(z) - 1)

\* the solver is invoked a second time, with an induced union dictionary
\* over vocabularies of different sizes
C4_Witness ==
    /\ pc = "solve" /\ it = 2
    /\ args.self_learning /\ args.direction = "union"
    /\ Len(x) < Len(z)
    /\ src_indices # seed.src

\* C8 as stated: without self-learning the training dictionary stays the
\* seed dictionary and the mapping solver is invoked once, after which the
\* loop halts, for every threshold.
C8_Original ==
    (~args.self_learning /\ InLoop) =>
        /\ src_indices = seed.src /\ trg_indices = seed.trg
        /\ pc = "solve" => it = 1
        /\ (pc = "while" /\ it >= 2) => ~Continue

C10_DictionarySize ==
    (args.self_learning /\ ~args.lapmod /\ InLoop /\ it >= 2) =>
        LET nx == Len(x)
            nz == Len(z)
        IN /\ Len(src_indices) = Len(trg_indices)
           /\ args.direction = "forward" =>
                 Len(src_indices) = nx /\ src_indices = Arange(nx)
           /\ args.direction = "backward" =>
                 Len(trg_indices) = nz /\ trg_indices = Arange(nz)
           /\ args.direction = "union" =>
                 /\ Len(src_indices) = nx + nz
                 /\ SubSeq(src_indices, 1, nx) = Arange(nx)
                 /\ SubSeq(trg_indices, nx + 1, nx + nz) = Arange(nz)

\* a union dictionary that holds the same pair twice
C10_Witness ==
    /\ args.self_learning /\ ~args.lapmod /\ args.direction = "union"
    /\ pc = "while" /\ it >= 2
    /\ \E k \in 1..Len(x) : \E m \in (Len(x) + 1)..Len(src_indices) :
          src_indices[k] = src_indices[m] /\ trg_indices[k] = trg_indices[m]

(***************************************************************************)
(* The similarity engine on its own: the double loop over blocks of the    *)
(* nearest-neighbour branch, one block per step, for every similarity      *)
(* matrix over SimVals and every pair of block sizes.                      *)
(***************************************************************************)
MaxSimRows == 2
MaxBlock == 2
SimVals == {-150, -100, 0, 1}

SimInputs ==
    UNION {[S : [(0..(nx - 1)) \X (0..(nz - 1)) -> SimVals],
            nx : {nx}, nz : {nz}, bx : 1..MaxBlock, bz : 1..MaxBlock,
            direction : Directions] :
              <<nx, nz>> \in (1..MaxSimRows) \X (1..MaxSimRows)}

InitSim ==
    /\ MainOff
    /\ \E in \in SimInputs :
          sv = [pc |-> "block", in |-> in, i |-> 0, k |-> 0,
                st |-> NNStart(in.nx, in.nz, BestSimInit)]
    /\ dv = Idle /\ lv = Idle

\* one pass of the body of the loop over k, then the loop headers
SimBlock ==
    /\ sv.pc = "block"
    /\ LET in == sv.in
           st == BlockStep(sv.st, in.S, sv.i, Min(in.nx, sv.i + in.bx),
                           sv.k, Min(in.nz, sv.k + in.bz), in.direction)
           k2 == sv.k + in.bz
           i2 == IF k2 >= in.nz THEN sv.i + in.bx ELSE sv.i
       IN sv' = [sv EXCEPT !.st = st,
                           !.k = IF k2 >= in.nz THEN 0 ELSE k2,
                           !.i = i2,
                           !.pc = IF i2 >= in.nx THEN "done" ELSE "block"]
    /\ UNCHANGED <<mainVars, dv, lv>>

NextSim == SimBlock

SpecSim == InitSim /\ [][NextSim]_vars

\* the largest entry of row r, and of column c, of the whole matrix
RowMax(S, r, nz) == S[<<r, ArgMaxRow(S, r, 0, nz)>>]
ColMax(S, c, nx) == S[<<ArgMaxCol(S, c, 0, nx), c>>]

\* the outcome of the blockwise search is that of one arg-max over the
\* whole matrix, in the directions that were searched
SameAsUnblocked ==
    LET in == sv.in
    IN /\ in.direction \in {"forward", "union"} =>
             \A r \in 0..(in.nx - 1) :
                 /\ sv.st.bsf[r + 1] = RowMax(in.S, r, in.nz)
                 /\ sv.st.tif[r + 1] = ArgMaxRow(in.S, r, 0, in.nz)
       /\ in.direction \in {"backward", "union"} =>
             \A c \in 0..(in.nz - 1) :
                 /\ sv.st.bsb[c + 1] = ColMax(in.S, c, in.nx)
                 /\ sv.st.sib[c + 1] = ArgMaxCol(in.S, c, 0, in.nx)

\* C3: for every similarity matrix, whatever the range of its values, and
\* every pair of block sizes, the blockwise search ends with the arg-max
\* index and value of every row and column of the whole matrix.
C3_Equivalence == sv.pc = "done" => SameAsUnblocked

\* The same with every similarity above the initial best similarity
C3_AboveInitial ==
    (sv.pc = "done" /\ \A p \in DOMAIN sv.in.S : sv.in.S[p] > BestSimInit)
        => SameAsUnblocked

(***************************************************************************)
(* The dictionary readers on their own, one line per step: the reader of   *)
(* the training dictionary, and the reader of a validation or test         *)
(* dictionary with its coverage.                                           *)
(***************************************************************************)
MaxLines == 3
DictWords == {"a", "b", "c"}
SrcVocabularies == {<<"a">>, <<"a", "b">>, <<"b", "a", "b">>}
TrgVocabularies == {<<"a">>, <<"c", "a">>}
DictFiles == UNION {[1..n -> DictWords \X DictWords] : n \in 0..MaxLines}

InitDict ==
    /\ MainOff
    /\ \E sw \in SrcVocabularies, tw \in TrgVocabularies, f \in DictFiles,
          mode \in {"training", "coverage"} :
          dv = [pc |-> "line", mode |-> mode, sw |-> sw, tw |-> tw, lines |-> f,
                pos |-> 1, d |-> [src |-> <<>>, trg |-> <<>>],
                validation |-> <<>>, oov |-> {}, vocab |-> {},
                coverage |-> <<0, 1>>]
    /\ sv = Idle /\ lv = Idle

\* for line in f: of the training dictionary
TrainingLineStep ==
    /\ dv.pc = "line" /\ dv.mode = "training"
    /\ IF dv.pos > Len(dv.lines)
       THEN dv' = [dv EXCEPT !.pc = "done"]
       ELSE dv' = [dv EXCEPT !.d = TrainingLine(dv.d, dv.lines[dv.pos], dv.sw, dv.tw),
                             !.pos = dv.pos + 1]
    /\ UNCHANGED <<mainVars, sv, lv>>

\* validation[src_ind].add(trg_ind) on a defaultdict(set), kept as a
\* function from the keys to their sets
AddTranslation(v, key, t) ==
    [k \in DOMAIN v \cup {key} |->
        IF k = key THEN (IF k \in DOMAIN v THEN v[k] ELSE {}) \cup {t} ELSE v[k]]

\* one line of a validation or test dictionary
CoverageLine(r, line) ==
    IF InVocab(r.sw, line[1]) /\ InVocab(r.tw, line[2])
    THEN [r EXCEPT !.validation = AddTranslation(r.validation, Word2Ind(r.sw, line[1]),
                                                 Word2Ind(r.tw, line[2])),
                   !.vocab = r.vocab \cup {line[1]}]
    ELSE [r EXCEPT !.oov = r.oov \cup {line[1]}]

\* A variant of the end of the reader that leaves oov as it is
CoverageKeepOov(r) ==
    IF Cardinality(DOMAIN r.validation) + Cardinality(r.oov) = 0
    THEN [r EXCEPT !.pc = "crash"]
    ELSE [r EXCEPT !.pc = "done",
                   !.coverage = Rat(Cardinality(DOMAIN r.validation),
                                    Cardinality(DOMAIN r.validation)
                                        + Cardinality(r.oov))]

\* oov -= vocab; coverage = len(validation) / (len(validation) + len(oov))
Coverage(r) ==
    LET oov == r.oov \ r.vocab
        n == Cardinality(DOMAIN r.validation)
    IN IF n + Cardinality(oov) = 0
       THEN [r EXCEPT !.oov = oov, !.pc = "crash"]
       ELSE [r EXCEPT !.oov = oov, !.pc = "done",
                      !.coverage = Rat(n, n + Cardinality(oov))]

CoverageLineStep ==
    /\ dv.pc = "line" /\ dv.mode = "coverage"
    /\ IF dv.pos > Len(dv.lines)
       THEN dv' = Coverage(dv)
       ELSE dv' = [CoverageLine(dv, dv.lines[dv.pos]) EXCEPT !.pos = dv.pos + 1]
    /\ UNCHANGED <<mainVars, sv, lv>>

NextDict == TrainingLineStep \/ CoverageLineStep

SpecDict == InitDict /\ [][NextDict]_vars

\* the lines read so far
LinesRead == SubSeq(dv.lines, 1, dv.pos - 1)
Known(line) == InVocab(dv.sw, line[1]) /\ InVocab(dv.tw, line[2])

\* the lines whose two words are both in vocabulary, in file order
RECURSIVE KnownLines(_)
KnownLines(lines) ==
    IF lines = <<>> THEN <<>>
    ELSE (IF Known(Head(lines)) THEN <<Head(lines)>> ELSE <<>>) \o KnownLines(Tail(lines))

\* C5: the reader of the training dictionary never aborts on a line with a
\* word out of vocabulary, and at every point of the file the two index
\* lists are exactly the lines read so far whose two words are both in
\* vocabulary, in file order, one pair per line.
C5_InVocabularyLines ==
    dv.mode = "training" =>
        /\ dv.pc # "crash"
        /\ LET known == KnownLines(LinesRead)
           IN /\ Len(dv.d.src) = Len(known)
              /\ Len(dv.d.trg) = Len(known)
              /\ \A n \in DOMAIN known :
                    /\ dv.sw[dv.d.src[n] + 1] = known[n][1]
                    /\ dv.tw[dv.d.trg[n] + 1] = known[n][2]

\* the file is read to its end; it holds a line whose source word is known
\* and whose target word is not, between two lines that are kept
C5_Witness ==
    /\ dv.mode = "training" /\ dv.pc = "done" /\ Len(dv.lines) = 3
    /\ Known(dv.lines[1]) /\ Known(dv.lines[3])
    /\ InVocab(dv.sw, dv.lines[2][1]) /\ ~InVocab(dv.tw, dv.lines[2][2])
    /\ Len(dv.d.src) = 2

\* the source words of the file with, and without, a line whose two words
\* are both in vocabulary
SourceWords == {dv.lines[n][1] : n \in DOMAIN dv.lines}
CoveredWords == {w \in SourceWords : \E n \in DOMAIN dv.lines :
                                         dv.lines[n][1] = w /\ Known(dv.lines[n])}

\* C6: with k source words that have a line whose two words are both in
\* vocabulary and m source words that have none, the coverage of a
\* dictionary that is not empty is k / (k + m), in whatever order the lines
\* of a source word come.
C6_Coverage ==
    (dv.mode = "coverage" /\ dv.pc \in {"done", "crash"}) =>
        LET k == Cardinality(CoveredWords)
            m == Cardinality(SourceWords \ CoveredWords)
        IN /\ dv.pc = "crash" <=> dv.lines = <<>>
           /\ dv.pc = "done" =>
                 /\ Cardinality(DOMAIN dv.validation) = k
                 /\ Cardinality(dv.oov) = m
                 /\ dv.coverage[1] * (k + m) = k * dv.coverage[2]

\* a source word whose first line fails and whose second line is kept, and
\* another source word that is out of vocabulary
C6_Witness ==
    /\ dv.mode = "coverage" /\ dv.pc = "done" /\ Len(dv.lines) = 3
    /\ dv.lines[1][1] = dv.lines[2][1]
    /\ ~Known(dv.lines[1]) /\ Known(dv.lines[2])
    /\ dv.lines[3][1] \notin CoveredWords
    /\ dv.coverage = <<1, 2>>

(***************************************************************************)
(* The sparse cost structure of the assignment branch on its own, one      *)
(* chunk of source rows per step.  The branch reads args.n_similar, which  *)
(* is no argument of the parser (in main() the read ends the run); here    *)
(* n_similar is an input, so that the construction itself is examined.     *)
(* lap_rank = 0 stands for no --lap-rank.  S is xw.dot(zw.T).              *)
(***************************************************************************)
MaxLapRows == 3
MaxSimilar == 2
LapSimVals == {0, 1}

LapInputs ==
    UNION {[S : [(0..(nx - 1)) \X (0..(nz - 1)) -> LapSimVals],
            nx : {nx}, nz : {nz}, lap_rank : 0..nx,
            lapmod_chunk_size : 1..MaxLapRows, n_similar : 1..MaxSimilar,
            lap_repeats : {1, 2}] :
              <<nx, nz>> \in {p \in (1..MaxLapRows) \X (1..MaxLapRows) : p[1] <= p[2]}}

InitLap ==
    /\ MainOff
    /\ \E in \in LapInputs :
          lv = [pc |-> "start", in |-> in, n_rows |-> 0, i |-> 0,
                cc |-> <<>>, kk |-> <<>>, ii |-> <<>>]
    /\ sv = Idle /\ dv = Idle

\* n_rows, the allocation of cc and kk (their entries are not yet set) and
\* the row starts ii
LapAllocate(r) ==
    LET in == r.in
        n == IF in.lap_rank # 0 THEN in.lap_rank ELSE in.nx
    IN [r EXCEPT !.pc = "chunk",
                 !.n_rows = n,
                 !.cc = [e \in 1..(n * in.n_similar) |-> 0],
                 !.kk = [e \in 1..(n * in.n_similar) |-> 0],
                 !.ii = [e \in 1..(n * in.lap_repeats + 1) |-> (e - 1) * in.n_similar]]

\* the columns of the n largest similarities of row r among the first cols
TopColumns(S, r, cols, n) ==
    CHOOSE T \in SUBSET (0..(cols - 1)) :
        /\ Cardinality(T) = n
        /\ \A t \in T : \A u \in (0..(cols - 1)) \ T : S[<<r, t>>] >= S[<<r, u>>]

\* the e-th smallest element of a set of numbers, e from 1
Nth(T, e) == CHOOSE t \in T : Cardinality({u \in T : u < t}) = e - 1

\* one pass of the loop over the chunks of source rows
LapChunk(r) ==
    LET in == r.in
        n == in.n_similar
        i == r.i
        j == Min(in.nx, i + in.lapmod_chunk_size)
        cols == IF in.lap_rank # 0 THEN Min(r.n_rows, in.nz) ELSE in.nz
        room == Min(j * n, r.n_rows * n) - i * n
        col(e) == Nth(TopColumns(in.S, i + ((e - 1) \div n), cols, n), ((e - 1) % n) + 1)
        i2 == i + in.lapmod_chunk_size
    IN IF n > cols \/ room # (j - i) * n
       THEN [r EXCEPT !.pc = "crash"]
       ELSE [r EXCEPT
               !.kk = [e \in DOMAIN r.kk |->
                          IF e \in (i * n + 1)..(j * n) THEN col(e - i * n) ELSE r.kk[e]],
               !.cc = [e \in DOMAIN r.cc |->
                          IF e \in (i * n + 1)..(j * n)
                          THEN 1 - in.S[<<i + ((e - i * n - 1) \div n), col(e - i * n)>>]
                          ELSE r.cc[e]],
               !.i = i2,
               !.pc = IF i2 >= r.n_rows THEN "built" ELSE "chunk"]

LapStartStep ==
    /\ lv.pc = "start"
    /\ lv' = LapAllocate(lv)
    /\ UNCHANGED <<mainVars, sv, dv>>

LapChunkStep ==
    /\ lv.pc = "chunk"
    /\ lv' = LapChunk(lv)
    /\ UNCHANGED <<mainVars, sv, dv>>

NextLap == LapStartStep \/ LapChunkStep

SpecLap == InitLap /\ [][NextLap]_vars

\* the construction run to its end
RECURSIVE LapRun(_)
LapRun(r) ==
    IF r.pc = "start" THEN LapRun(LapAllocate(r))
    ELSE IF r.pc = "chunk" THEN LapRun(LapChunk(r))
    ELSE r

\* what a construction leaves: the structure, or nothing when it failed
Structure(r) ==
    IF r.pc = "built" THEN [built |-> TRUE, ii |-> r.ii, kk |-> r.kk, cc |-> r.cc]
    ELSE [built |-> FALSE, ii |-> <<>>, kk |-> <<>>, cc |-> <<>>]

\* the construction with one chunk that covers the whole vocabulary
OneChunk ==
    LapRun([pc |-> "start", in |-> [lv.in EXCEPT !.lapmod_chunk_size = lv.in.nx],
            n_rows |-> 0, i |-> 0, cc |-> <<>>, kk |-> <<>>, ii |-> <<>>])

C7_WithoutRank ==
    (lv.pc \in {"built", "crash"} /\ lv.in.lap_rank \in {0, lv.in.nx})
        => Structure(lv) = Structure(OneChunk)

(***************************************************************************)
(* The assignment branch of the self-learning step from the cost structure *)
(* to the objective: replication, lapmod, folding of the replica columns   *)
(* and the objective.  n_similar is an input here, as in the construction. *)
(***************************************************************************)
MaxAssignRows == 2
AssignSimVals == {0, 1}
Proportions == {"1:1", "1:2"}

AssignInputs ==
    UNION {[S : [(0..(nx - 1)) \X (0..(nz - 1)) -> AssignSimVals],
            nx : {nx}, nz : {nz}, lap_rank : 0..nx,
            lapmod_chunk_size : {1, nx}, n_similar : 1..MaxSimilar,
            lap_repeats : {1, 2}, lap_prop : Proportions,
            direction : Directions] :
              <<nx, nz>> \in {p \in (1..MaxAssignRows) \X (1..MaxAssignRows) : p[1] <= p[2]}}

InitAssign ==
    /\ MainOff
    /\ \E in \in AssignInputs :
          lv = [pc |-> "start", in |-> in, n_rows |-> 0, i |-> 0,
                cc |-> <<>>, kk |-> <<>>, ii |-> <<>>,
                sel |-> <<>>, src |-> <<>>, trg |-> <<>>,
                bsf |-> [s \in 1..in.nx |-> BestSimInit],
                bsb |-> [t \in 1..in.nz |-> BestSimInit],
                wf |-> {}, wb |-> {}, objective |-> <<InitialObjective, 1>>]
    /\ sv = Idle /\ dv = Idle

\* duplicate costs and target indices
RECURSIVE Replicate(_, _, _, _)
Replicate(kk, n_rows, lap_prop, reps) ==
    IF reps <= 1 THEN kk
    ELSE Replicate(kk, n_rows, lap_prop, reps - 1) \o
         [e \in DOMAIN kk |->
             IF lap_prop = "1:2" THEN kk[e] ELSE kk[e] + n_rows * (reps - 1)]

RECURSIVE Repeat(_, _)
Repeat(s, reps) == IF reps <= 1 THEN s ELSE Repeat(s, reps - 1) \o s

LapReplicate(r) ==
    [r EXCEPT !.cc = Repeat(r.cc, r.in.lap_repeats),
              !.kk = Replicate(r.kk, r.n_rows, r.in.lap_prop, r.in.lap_repeats),
              !.pc = "lapmod"]

\* lapmod(n, cc, ii, kk): one entry of kk for each of the first k rows
RECURSIVE RowChoices(_, _)
RowChoices(r, k) ==
    IF k = 0 THEN {<<>>}
    ELSE {Append(s, e) : s \in RowChoices(r, k - 1),
                         e \in (r.ii[k] + 1)..r.ii[k + 1]}

ChoiceCost(r, s) == SumSeq([k \in DOMAIN s |-> r.cc[s[k]]])

ChoiceColumns(r, s) == [k \in DOMAIN s |-> r.kk[s[k]]]

OneToOne(r, s) == \A k, m \in DOMAIN s : k # m => r.kk[s[k]] # r.kk[s[m]]

\* the one-to-one choices over the n rows of the replicated structure
Matchings(r) ==
    {s \in RowChoices(r, r.n_rows * r.in.lap_repeats) : OneToOne(r, s)}

\* the columns lie in the n x n matrix and a one-to-one choice exists
InContract(r) ==
    /\ \A e \in DOMAIN r.kk : r.kk[e] < r.n_rows * r.in.lap_repeats
    /\ Matchings(r) # {}

\* what the call returns as the column of every row: a one-to-one choice
\* of minimum cost; outside the contract of lapmod the call either fails
\* or returns some choice
Lapmod(r) ==
    LET matchings == Matchings(r)
        best == {s \in matchings :
                    \A u \in matchings : ChoiceCost(r, s) <= ChoiceCost(r, u)}
    IN IF InContract(r)
       THEN {[ok |-> TRUE, sel |-> ChoiceColumns(r, s)] : s \in best}
       ELSE {[ok |-> FALSE, sel |-> <<>>]} \cup
            {[ok |-> TRUE, sel |-> ChoiceColumns(r, s)] :
                s \in RowChoices(r, r.n_rows * r.in.lap_repeats)}

\* while trg_idx >= n_rows: trg_idx -= n_rows
RECURSIVE FoldIndex(_, _)
FoldIndex(trg_idx, n_rows) ==
    IF trg_idx >= n_rows THEN FoldIndex(trg_idx - n_rows, n_rows) ELSE trg_idx

Max(a, b) == IF a > b THEN a ELSE b

\* best_sim_forward after the pairs 1..k of the dictionary
RECURSIVE FoldBest(_, _, _, _, _)
FoldBest(S, bsf, src, trg, k) ==
    IF k = 0 THEN bsf
    ELSE LET b == FoldBest(S, bsf, src, trg, k - 1)
         IN [b EXCEPT ![src[k] + 1] = Max(b[src[k] + 1], S[<<src[k], trg[k]>>])]

LapFold(r) ==
    LET src == Repeat(Arange(r.n_rows), r.in.lap_repeats)
        trg == [k \in DOMAIN r.sel |-> FoldIndex(r.sel[k], r.n_rows)]
        bsf == [s \in 1..r.n_rows |-> BestSimInit]
    IN [r EXCEPT !.src = src,
                 !.trg = trg,
                 !.bsf = FoldBest(r.in.S, bsf, src, trg, Len(src)),
                 !.wf = {src[k] : k \in DOMAIN src},
                 !.pc = "objective"]

LapReplicateStep ==
    /\ lv.pc = "built"
    /\ lv' = LapReplicate(lv)
    /\ UNCHANGED <<mainVars, sv, dv>>

LapmodStep ==
    /\ lv.pc = "lapmod"
    /\ \E out \in Lapmod(lv) :
          lv' = IF out.ok THEN [lv EXCEPT !.sel = out.sel, !.pc = "fold"]
                ELSE [lv EXCEPT !.pc = "failed"]
    /\ UNCHANGED <<mainVars, sv, dv>>

LapFoldStep ==
    /\ lv.pc = "fold"
    /\ lv' = LapFold(lv)
    /\ UNCHANGED <<mainVars, sv, dv>>

LapObjectiveStep ==
    /\ lv.pc = "objective"
    /\ lv' = [lv EXCEPT !.objective = Objective(lv, lv.in.direction, 1),
                        !.pc = "done"]
    /\ UNCHANGED <<mainVars, sv, dv>>

NextAssign ==
    \/ LapStartStep
    \/ LapChunkStep
    \/ LapReplicateStep
    \/ LapmodStep
    \/ LapFoldStep
    \/ LapObjectiveStep

SpecAssign == InitAssign /\ [][NextAssign]_vars

\* the best similarity of source row s among the pairs of the dictionary
BestOfSrc(r, s) ==
    LET sims == {r.in.S[<<s, r.trg[k]>>] : k \in {m \in DOMAIN r.src : r.src[m] = s}}
    IN CHOOSE v \in sims : \A u \in sims : v >= u

\* the best similarity of target row t among the pairs of the dictionary
BestOfTrg(r, t) ==
    LET sims == {r.in.S[<<r.src[k], t>>] : k \in {m \in DOMAIN r.trg : r.trg[m] = t}}
    IN CHOOSE v \in sims : \A u \in sims : v >= u

ForwardWritten(r) ==
    \A s \in DOMAIN r.bsf : (s - 1) \in r.wf /\ r.bsf[s] = BestOfSrc(r, s - 1)

BackwardWritten(r) ==
    \A t \in DOMAIN r.bsb : (t - 1) \in r.wb /\ r.bsb[t] = BestOfTrg(r, t - 1)

C11_Forward ==
    (lv.pc = "done" /\ lv.in.direction = "forward") =>
        /\ ForwardWritten(lv)
        /\ lv.objective = Mean(lv.bsf, 1)

\* The backward vector, and so the backward objective, after an assignment
\* induction within the contract of lapmod: still what it was initialised to
C11_BackwardInitial ==
    (lv.pc = "done" /\ lv.in.direction = "backward" /\ InContract(lv)) =>
        /\ lv.wb = {}
        /\ lv.objective = <<BestSimInit, 1>>

\* the offset added to the columns of the replica that holds row k (from 1)
ReplicaOffset(r, k) ==
    IF r.in.lap_prop = "1:2" THEN 0 ELSE r.n_rows * ((k - 1) \div r.n_rows)

C12_InContract ==
    (lv.pc \in {"objective", "done"} /\ InContract(lv)) =>
        \A k \in DOMAIN lv.trg : lv.trg[k] = lv.sel[k] - ReplicaOffset(lv, k)

\* The same when no base column reaches the row count of the structure
C12_SquareOrRanked ==
    (lv.pc \in {"objective", "done"} /\ (lv.in.lap_rank # 0 \/ lv.in.nx = lv.in.nz)) =>
        \A k \in DOMAIN lv.trg : lv.trg[k] = lv.sel[k] - ReplicaOffset(lv, k)

(***************************************************************************)
(* Termination of the training loop.  main() is sequential: whenever a     *)
(* step is possible it is taken, which is weak fairness of Next.           *)
(***************************************************************************)
LiveThresholds == {<<1, 1000>>, <<200, 1>>}

LiveArgs ==
    {a \in [whiten : {FALSE}, src_dewhiten : {"None"}, trg_dewhiten : {"None"},
            cuda : {FALSE}, num_words : {0}, normalize : {<<>>},
            orthogonal : BOOLEAN, unconstrained : BOOLEAN,
            self_learning : BOOLEAN, direction : Directions, lapmod : BOOLEAN,
            numerals : {FALSE}, identical : {FALSE}, threshold : LiveThresholds] :
        /\ ~(a.orthogonal /\ a.unconstrained)
        /\ ~a.self_learning => (a.direction = "forward" /\ ~a.lapmod)}

FullFiles(wordAt, vals) ==
    {f \in EmbeddingFiles(wordAt, vals) : Len(f) = MaxRows}

LiveDictionaries == {<<>>, BaseDictionary}

InitLive ==
    /\ args \in LiveArgs
    /\ cupy = FALSE
    /\ src_input \in FullFiles(SrcWordAt, SrcVals)
    /\ trg_input \in FullFiles(TrgWordAt, TrgVals)
    /\ dictionary \in LiveDictionaries
    /\ pc = "args"
    /\ InitLocals
    /\ sv = Idle /\ dv = Idle /\ lv = Idle

SpecLive == InitLive /\ [][Next]_vars /\ WF_vars(Next)

\* C13 as stated: with a positive threshold the loop reaches 'converged'
\* after finitely many iterations.
C13_Original ==
    (pc = "while" /\ args.threshold[1] > 0) ~> (pc \in {"write", "done"})

\* C13 as amended: the loop is left for the end of the run only through
\* the convergence rule, which after every completed iteration, the first
\* included and a decrease of the objective included, halts the loop
\* exactly when the gain is below the threshold; and with a positive
\* threshold every run ends after finitely many iterations, converged or
\* ended by an error raised inside an iteration.
C13_Termination ==
    /\ [][(pc = "while" /\ pc' # "while") =>
             ((pc' = "write") <=>
                 (it > 1 /\ RatLT(RatSub(objective, prev_objective), args.threshold)))]_vars
    /\ (pc = "while" /\ args.threshold[1] > 0) ~> (pc \in {"done", "crash"})

\* a self-learning run has converged after two iterations, the second of
\* which lowered the objective
C13_Witness ==
    /\ pc = "done" /\ it = 3
    /\ args.self_learning /\ args.threshold[1] > 0
    /\ RatLT(objective, prev_objective)

\* a self-learning run has converged after iteration 1: its gain over the
\* initial objective is below the threshold
C13_FirstIteration ==
    /\ pc = "done" /\ it = 2
    /\ args.self_learning
    /\ objective # prev_objective

====
